---- MODULE Spec2Model ----
(***************************************************************************)
(* The bit-video codec of pico-playground: the packed bit-grid             *)
(* (simulations/src/bitgrid.rs), the container layout                      *)
(* (image-tools/src/codec.rs), the encoder (image-tools/src/encoder.rs)    *)
(* and the streaming decoder (image-tools/src/decoder.rs).                 *)
(*                                                                         *)
(* Bytes are integers 0..255, byte buffers are sequences of bytes, and a   *)
(* Rust index i is the TLA+ index i + 1.  A panic is a terminal state of   *)
(* the object that panicked.  Arithmetic overflow panics in a build with   *)
(* overflow checks (debug) and wraps in a build without (release): the     *)
(* operators that can overflow take the build's `checks` flag.             *)
(***************************************************************************)
EXTENDS Integers, Sequences, FiniteSets, TLC

\* ------------------------------------------------------------------ bounds

\* Longest frame queue the encoder is driven to.
MaxFrames == 2
\* Most next_frame calls made between two resets of a decoder.
MaxCalls == 4

\* Calls made on a grid of its own.
MaxOps == 2

\* --------------------------------------------------------- integer widths

U8Mod == 256
U16Mod == 65536
I16Max == 32767

Wrap16(v) == ((v + I16Max + 1) % U16Mod) - (I16Max + 1)

Abs(v) == IF v < 0 THEN -v ELSE v

\* Rust's % and / on signed integers truncate towards zero (b # 0).
RustRem(a, b) == IF a >= 0 THEN a % Abs(b) ELSE -((-a) % Abs(b))

RustDiv(a, b) ==
    LET q == Abs(a) \div Abs(b)
    IN  IF (a < 0) = (b < 0) THEN q ELSE -q

Pow2(k) == 2 ^ k

U16LE(v) == << v % U8Mod, (v \div U8Mod) % U8Mod >>

\* A u32 is kept as its two 16-bit halves [lo, hi].
U32(v) == [ lo |-> v % U16Mod, hi |-> (v \div U16Mod) % U16Mod ]

U32LE(v) == U16LE(v.lo) \o U16LE(v.hi)

\* Little-endian reads at Rust offset off.
ReadU16(b, off) == b[off + 1] + U8Mod * b[off + 2]

ReadU32(b, off) == [ lo |-> ReadU16(b, off), hi |-> ReadU16(b, off + 2) ]

Zeros(n) == [i \in 1..n |-> 0]

\* ---------------------------------------------------------------- BitGrid

\* BitGrid::new(width: usize, height: usize)
BitGridNew(w, h) ==
    [ buf    |-> Zeros(((w + 7) \div 8) * h),
      width  |-> Wrap16(w),
      height |-> Wrap16(h) ]

\* BitGrid::dims(): the (width, height) pair the encoder stores.
BitGridDims(g) == << g.width, g.height >>

\* idx() divides by the width and the height: a zero one panics in any build.
IdxDivByZero(g) == g.width = 0 \/ g.height = 0

\* v does not fit an i16.
OutOfI16(v) == v > I16Max \/ v < -I16Max - 1

\* The i16 sums and products of idx() that leave the i16 range (the
\* remainders and quotients cannot, short of a width or height of -1).
IdxOverflows(g, x, y) ==
    LET x1 == RustRem(Wrap16(x + g.width), g.width)
        y1 == RustRem(Wrap16(y + g.height), g.height)
        st == RustDiv(Wrap16(g.width + 7), 8)
    IN  \/ OutOfI16(x + g.width)
        \/ OutOfI16(y + g.height)
        \/ OutOfI16(g.width + 7)
        \/ OutOfI16(y1 * st)
        \/ OutOfI16(RustDiv(x1, 8) + Wrap16(y1 * st))

\* BitGrid::idx(x, y) for a grid of non-zero width and height, as the
\* wrapping build computes it: the byte index (an i16) and the bit (an i16).
Idx(g, x, y) ==
    LET x1 == RustRem(Wrap16(x + g.width), g.width)
        y1 == RustRem(Wrap16(y + g.height), g.height)
        st == RustDiv(Wrap16(g.width + 7), 8)
    IN  [ idx |-> Wrap16(RustDiv(x1, 8) + Wrap16(y1 * st)),
          bit |-> RustRem(x1, 8) ]

\* The byte index of idx() is negative (`as usize` makes it huge) or lies
\* past a buffer of n bytes: self.buf[idx] panics in any build.
IdxOutside(c, n) == c.idx < 0 \/ c.idx >= n

\* The bit of idx() is negative: `as u8` makes it 249..255, and `1 << bit`
\* on a u8 overflows, which panics under checks.
ShiftOverflows(c) == c.bit < 0

\* The shift `1 << bit` makes in a wrapping build: the amount `bit as u8`
\* is masked to the 3 bits a u8 shift takes.
Shift(bit) == bit % 8

\* The pair (idx as usize, bit as u8) makes get, set or flip panic on a
\* buffer of n bytes.
PairPanics(c, n, checks) ==
    \/ checks /\ ShiftOverflows(c)
    \/ IdxOutside(c, n)

\* A call of get, set or flip panics: a division by zero, an overflow under
\* checks, or a byte out of range.
CellPanics(g, x, y, checks) ==
    \/ IdxDivByZero(g)
    \/ checks /\ IdxOverflows(g, x, y)
    \/ PairPanics(Idx(g, x, y), Len(g.buf), checks)

BitOf(byte, bit) == (byte \div Pow2(bit)) % 2

\* buf[idx] &= !mask; buf[idx] |= (elem as u8) << bit
WithBit(byte, bit, elem) ==
    byte - BitOf(byte, bit) * Pow2(bit) + (IF elem THEN Pow2(bit) ELSE 0)

GetAt(g, c) == BitOf(g.buf[c.idx + 1], Shift(c.bit)) = 1

SetAt(g, c, elem) ==
    [g EXCEPT !.buf[c.idx + 1] = WithBit(@, Shift(c.bit), elem)]

\* BitGrid::get
Get(g, x, y) == GetAt(g, Idx(g, x, y))

\* BitGrid::set: the grid after the call (the call returns Get before it).
Set(g, x, y, elem) == SetAt(g, Idx(g, x, y), elem)

\* BitGrid::flip: the grid after the call (the call returns Get before it).
Flip(g, x, y) == SetAt(g, Idx(g, x, y), ~GetAt(g, Idx(g, x, y)))

\* BitGrid::clear
Clear(g) == [g EXCEPT !.buf = Zeros(Len(g.buf))]

\* ------------------------------------------------------- container layout

MAGIC == << 66, 73, 84, 86, 73, 68, 69, 79, 240, 159, 141, 142 >>

VERSION == 2

HeaderSize == 128

ChunkSize == 6

ReservedLen == 104

COMPRESSED_FRAME == 1

UNCOMPRESSED == 0

RUN_LENGTH_ENCODING == 1

\* CodecHeader::new(n_frames: usize, width: u32, height: u32)
CodecHeaderNew(n_frames, width, height) ==
    [ magic    |-> MAGIC,
      version  |-> U32(VERSION),
      n_frames |-> U32(n_frames),
      width    |-> width % U16Mod,
      height   |-> height % U16Mod,
      reserved |-> Zeros(ReservedLen) ]

\* A layout with the height in front of the width.
HeaderBytesSwapped(h) ==
    h.magic \o U32LE(h.version) \o U32LE(h.n_frames)
      \o U16LE(h.height) \o U16LE(h.width) \o h.reserved

\* bytemuck::bytes_of(&header): the repr(C) fields in order, little-endian.
HeaderBytes(h) ==
    h.magic \o U32LE(h.version) \o U32LE(h.n_frames)
      \o U16LE(h.width) \o U16LE(h.height) \o h.reserved

\* CodecHeader::read on a buffer of at least HeaderSize bytes.
CodecHeaderRead(b) ==
    [ magic    |-> SubSeq(b, 1, 12),
      version  |-> ReadU32(b, 12),
      n_frames |-> ReadU32(b, 16),
      width    |-> ReadU16(b, 20),
      height   |-> ReadU16(b, 22),
      reserved |-> SubSeq(b, 25, HeaderSize) ]

\* CodecChunkCompressedFrame::new(size) with the two fields the encoder sets.
ChunkNew(size, compression, background_set) ==
    [ kind           |-> COMPRESSED_FRAME,
      size           |-> size % U16Mod,
      compression    |-> compression,
      background_set |-> background_set ]

\* bytemuck::bytes_of(&chunk)
ChunkBytes(c) ==
    U16LE(c.kind) \o U16LE(c.size) \o << c.compression, c.background_set >>

\* CodecChunkCompressedFrame::read on ChunkSize bytes starting at offset off.
ChunkRead(b, off) ==
    [ kind           |-> ReadU16(b, off),
      size           |-> ReadU16(b, off + 2),
      compression    |-> b[off + 5],
      background_set |-> b[off + 6] ]

\* ---------------------------------------------------------------- encoder

\* compress_uncompressed: the chunk header, then the frame's packed bytes.
compress_uncompressed(frame) ==
    ChunkBytes(ChunkNew(Len(frame.buf), UNCOMPRESSED, 0)) \o frame.buf

\* A scan that starts on the set colour.
ScanStartSet == [ out |-> << >>, color |-> TRUE, count |-> 0, panicked |-> FALSE ]

\* The state of the scan loop of compress_runlength: the current colour,
\* the u8 counter, whether an iteration has panicked, and the bytes written
\* by the iterations of the stretch of the loop under consideration.
ScanStart == [ out |-> << >>, color |-> FALSE, count |-> 0, panicked |-> FALSE ]

\* A scan that splits a run the counter cannot hold: at 255 it writes the
\* counter and an empty run of the other colour, and counts on from 1.
CountPixelSplit(st, pixel, checks) ==
    IF pixel # st.color
    THEN [ out |-> << st.count >>, color |-> pixel, count |-> 1,
           panicked |-> FALSE ]
    ELSE IF st.count + 1 >= U8Mod
    THEN [ out |-> << st.count, 0 >>, color |-> st.color, count |-> 1,
           panicked |-> FALSE ]
    ELSE [ out |-> << >>, color |-> st.color, count |-> st.count + 1,
           panicked |-> FALSE ]

\* The body of the scan loop on a pixel: a colour change writes the counter
\* and restarts it at 1, otherwise `count += 1` (a u8: 255 + 1 panics under
\* checks and wraps to 0 without).
CountPixel(st, pixel, checks) ==
    IF pixel # st.color
    THEN [ out |-> << st.count >>, color |-> pixel, count |-> 1,
           panicked |-> FALSE ]
    ELSE [ out |-> << >>, color |-> st.color, count |-> (st.count + 1) % U8Mod,
           panicked |-> checks /\ st.count + 1 >= U8Mod ]

\* One iteration of the scan loop, at row-major position p, entered in
\* state st: the state after it and the bytes it wrote.
ScanStep(frame, p, st, checks) ==
    IF st.panicked
    THEN st
    ELSE IF CellPanics(frame, p % frame.width, p \div frame.width, checks)
    THEN [ out |-> << >>, color |-> st.color, count |-> st.count,
           panicked |-> TRUE ]
    ELSE CountPixel(st, Get(frame, p % frame.width, p \div frame.width), checks)

\* The bytes `written` come before those of the state st.
After(written, st) == [st EXCEPT !.out = written \o @]

\* The iterations for positions lo..hi-1 in order, entered in state st: the
\* state after them and the bytes they wrote (the range is split in halves
\* to keep the evaluation shallow).
RECURSIVE RunLengthScan(_, _, _, _, _)
ScanRest(frame, mid, hi, first, checks) ==
    IF first.panicked
    THEN first
    ELSE After(first.out, RunLengthScan(frame, mid, hi, first, checks))

RunLengthScan(frame, lo, hi, st, checks) ==
    IF hi <= lo
    THEN [st EXCEPT !.out = << >>]
    ELSE IF hi = lo + 1
    THEN ScanStep(frame, lo, st, checks)
    ELSE ScanRest(frame, (lo + hi) \div 2, hi,
                  RunLengthScan(frame, lo, (lo + hi) \div 2, st, checks), checks)

\* The cells `for y in 0..height { for x in 0..width` visits.
ScanArea(frame) ==
    IF frame.width <= 0 \/ frame.height <= 0
    THEN 0
    ELSE frame.width * frame.height

\* After the scan: the pending counter is written if it is non-zero.
FinishScan(st) ==
    [ bytes    |-> IF st.count > 0 THEN Append(st.out, st.count) ELSE st.out,
      panicked |-> st.panicked ]

\* The run-length payload of a frame.
RunLengthPayload(frame, checks) ==
    FinishScan(RunLengthScan(frame, 0, ScanArea(frame), ScanStart, checks))

\* The run-length chunk: the chunk header, then the payload.
RunLengthChunk(rl) ==
    [ bytes    |-> ChunkBytes(ChunkNew(Len(rl.bytes), RUN_LENGTH_ENCODING, 0))
                     \o rl.bytes,
      panicked |-> rl.panicked ]

\* compress_runlength
compress_runlength(frame, checks) ==
    RunLengthChunk(RunLengthPayload(frame, checks))

\* A choice that takes the run-length chunk on a tie.
ChooseChunkStrict(uncompressed_bytes, runlength_bytes) ==
    IF Len(uncompressed_bytes) < Len(runlength_bytes)
    THEN uncompressed_bytes
    ELSE runlength_bytes

\* The choice encode_to makes between a frame's two chunks.
ChooseChunk(uncompressed_bytes, runlength_bytes) ==
    IF Len(uncompressed_bytes) <= Len(runlength_bytes)
    THEN uncompressed_bytes
    ELSE runlength_bytes

\* Bytes written before the bytes of `rest`.
Before(written, rest) ==
    [ bytes |-> written \o rest.bytes, panicked |-> rest.panicked ]

\* The frame loop of encode_to from frame i on: the bytes written and
\* whether a frame's compression panicked.
RECURSIVE EncodeFrames(_, _, _)
EncodeFrame(fs, i, rl, checks) ==
    IF rl.panicked
    THEN [ bytes |-> << >>, panicked |-> TRUE ]
    ELSE Before(ChooseChunk(compress_uncompressed(fs[i]), rl.bytes),
                EncodeFrames(fs, i + 1, checks))

EncodeFrames(fs, i, checks) ==
    IF i > Len(fs)
    THEN [ bytes |-> << >>, panicked |-> FALSE ]
    ELSE EncodeFrame(fs, i, compress_runlength(fs[i], checks), checks)

\* A header that counts the queue and declares a 1x1 grid when no frame was
\* ever pushed.
EncodeHeaderUnit(fs, ds) ==
    IF ds # << >>
    THEN CodecHeaderNew(Len(fs), ds[1], ds[2])
    ELSE CodecHeaderNew(Len(fs), 1, 1)

\* The header encode_to writes: from dims when a frame was ever pushed,
\* otherwise the empty one.  `width as u32` sign-extends the i16 and
\* CodecHeader::new keeps its low 16 bits.
EncodeHeader(fs, ds) ==
    IF ds # << >>
    THEN CodecHeaderNew(Len(fs), ds[1], ds[2])
    ELSE CodecHeaderNew(0, 0, 0)

\* encode_to_vec: the bytes returned, or a panic.
EncodeToVec(fs, ds, checks) ==
    Before(HeaderBytes(EncodeHeader(fs, ds)), EncodeFrames(fs, 1, checks))

\* ---------------------------------------------------------------- decoder

\* A read that advances the cursor by n whether or not it succeeds.
nextUnchecked(b, curr, n) ==
    [ ok |-> n <= Len(b) - curr, curr |-> curr + n ]

\* A read that leaves the cursor where it was when it fails.
nextUnpinned(b, curr, n) ==
    IF n <= Len(b) - curr
    THEN [ ok |-> TRUE,  curr |-> curr + n ]
    ELSE [ ok |-> FALSE, curr |-> curr ]

\* VideoDecoder::next(n) at cursor curr: whether n bytes were split off, and
\* the cursor afterwards (pinned to the end of the buffer when they were not).
next(b, curr, n) ==
    IF n <= Len(b) - curr
    THEN [ ok |-> TRUE,  curr |-> curr + n ]
    ELSE [ ok |-> FALSE, curr |-> Len(b) ]

\* A copy that takes as many bytes as both sides have and never panics.
expand_uncompressedPartial(bitmap, in_bytes) ==
    [ bitmap |-> [bitmap EXCEPT !.buf =
                    [i \in 1..Len(@) |->
                       IF i <= Len(in_bytes) THEN in_bytes[i] ELSE @[i]]],
      panicked |-> FALSE ]

\* expand_uncompressed: copy_from_slice panics unless the lengths are equal.
expand_uncompressed(bitmap, in_bytes) ==
    IF Len(bitmap.buf) # Len(in_bytes)
    THEN [ bitmap |-> bitmap, panicked |-> TRUE ]
    ELSE [ bitmap |-> [bitmap EXCEPT !.buf = in_bytes], panicked |-> FALSE ]

\* One iteration of a pixel loop of expand_runlength at (st.x, st.y): the
\* cell is set when white, and the cursor moves on (`y += 1` on an i16).
PixelStep(st, white, checks) ==
    IF st.panicked
    THEN st
    ELSE IF white /\ CellPanics(st.bitmap, st.x, st.y, checks)
    THEN [st EXCEPT !.panicked = TRUE]
    ELSE IF st.x + 1 >= st.bitmap.width
    THEN [ bitmap   |-> IF white THEN Set(st.bitmap, st.x, st.y, TRUE)
                        ELSE st.bitmap,
           x        |-> 0,
           y        |-> Wrap16(st.y + 1),
           panicked |-> checks /\ st.y + 1 > I16Max ]
    ELSE [ bitmap   |-> IF white THEN Set(st.bitmap, st.x, st.y, TRUE)
                        ELSE st.bitmap,
           x        |-> st.x + 1,
           y        |-> st.y,
           panicked |-> FALSE ]

\* n iterations of a pixel loop (split in halves to keep the evaluation
\* shallow).
RECURSIVE RunPixels(_, _, _, _)
PixelsRest(first, n, white, checks) ==
    IF first.panicked
    THEN first
    ELSE RunPixels(first, n, white, checks)

RunPixels(st, n, white, checks) ==
    IF n = 0
    THEN st
    ELSE IF n = 1
    THEN PixelStep(st, white, checks)
    ELSE PixelsRest(RunPixels(st, n \div 2, white, checks), n - (n \div 2),
                    white, checks)

\* The body of the loop over in_bytes.chunks(2): num_black cells skipped,
\* then num_white cells set.
PairStep(st, num_black, num_white, checks) ==
    RunPixels(RunPixels(st, num_black, FALSE, checks), num_white, TRUE, checks)

\* The loop over in_bytes.chunks(2), from byte i on; a missing second byte
\* counts as 0.
RECURSIVE ExpandPairs(_, _, _, _)
ExpandPairs(st, in_bytes, i, checks) ==
    IF i > Len(in_bytes) \/ st.panicked
    THEN st
    ELSE ExpandPairs(
           PairStep(st, in_bytes[i],
                    IF i + 1 <= Len(in_bytes) THEN in_bytes[i + 1] ELSE 0,
                    checks),
           in_bytes, i + 2, checks)

Expanded(st) == [ bitmap |-> st.bitmap, panicked |-> st.panicked ]

\* expand_runlength
expand_runlength(bitmap, in_bytes, checks) ==
    Expanded(ExpandPairs([ bitmap |-> bitmap, x |-> 0, y |-> 0,
                           panicked |-> FALSE ], in_bytes, 1, checks))

\* A decompression that takes every kind but 1 for uncompressed.
ExpandLenient(bitmap, compression, in_bytes, checks) ==
    IF compression = RUN_LENGTH_ENCODING
    THEN expand_runlength(Clear(bitmap), in_bytes, checks)
    ELSE expand_uncompressed(Clear(bitmap), in_bytes)

\* The decompression branch of next_frame on the grid taken out of the
\* decoder; a compression kind other than the two known ones is
\* unimplemented!().
Expand(bitmap, compression, in_bytes, checks) ==
    IF compression = UNCOMPRESSED
    THEN expand_uncompressed(Clear(bitmap), in_bytes)
    ELSE IF compression = RUN_LENGTH_ENCODING
    THEN expand_runlength(Clear(bitmap), in_bytes, checks)
    ELSE [ bitmap |-> bitmap, panicked |-> TRUE ]

\* The value next_frame returns: None, or a Frame viewing the decoder's grid.
NoFrame == [ some |-> FALSE, id |-> 0, bitmap |-> BitGridNew(0, 0),
             background_set |-> FALSE ]

SomeFrame(id, bitmap) ==
    [ some |-> TRUE, id |-> id, bitmap |-> bitmap, background_set |-> FALSE ]

\* VideoDecoder::next_frame on the decoder d = [bytes, curr, bitmap,
\* frame_num]: the decoder afterwards, whether the call panicked, and the
\* value returned when it did not.  The steps, last first:

\* a return that numbers the frame but does not count it;
FrameDoneUncounted(d, end, ex) ==
    IF ex.panicked
    THEN [ d |-> [d EXCEPT !.curr = end, !.bitmap = BitGridNew(0, 0)],
           panicked |-> TRUE, result |-> NoFrame ]
    ELSE [ d |-> [d EXCEPT !.curr = end, !.bitmap = ex.bitmap],
           panicked |-> FALSE,
           result |-> SomeFrame(d.frame_num + 1, ex.bitmap) ]

\* the grid is swapped back, the frame counted and the Frame returned, unless
\* the expansion ex panicked (with the 0x0 grid in the decoder);
FrameDone(d, end, ex) ==
    IF ex.panicked
    THEN [ d |-> [d EXCEPT !.curr = end, !.bitmap = BitGridNew(0, 0)],
           panicked |-> TRUE, result |-> NoFrame ]
    ELSE [ d |-> [d EXCEPT !.curr = end, !.bitmap = ex.bitmap,
                           !.frame_num = d.frame_num + 1],
           panicked |-> FALSE,
           result |-> SomeFrame(d.frame_num + 1, ex.bitmap) ]

\* a payload read whose failure leaves the cursor behind the chunk header;
PayloadReadStays(d, at, chunk, pl, checks) ==
    IF ~pl.ok
    THEN [ d |-> [d EXCEPT !.curr = at, !.bitmap = BitGridNew(0, 0)],
           panicked |-> FALSE, result |-> NoFrame ]
    ELSE FrameDone(d, pl.curr,
                   Expand(d.bitmap, chunk.compression,
                          SubSeq(d.bytes, at + 1, pl.curr), checks))

\* a payload read whose frame carries the chunk's background byte;
WithFlag(r, flag) ==
    [r EXCEPT !.result.background_set = r.result.some /\ flag]

PayloadReadKeepsFlag(d, at, chunk, pl, checks) ==
    IF ~pl.ok
    THEN [ d |-> [d EXCEPT !.curr = pl.curr, !.bitmap = BitGridNew(0, 0)],
           panicked |-> FALSE, result |-> NoFrame ]
    ELSE WithFlag(FrameDone(d, pl.curr,
                            Expand(d.bitmap, chunk.compression,
                                   SubSeq(d.bytes, at + 1, pl.curr), checks)),
                  chunk.background_set # 0)

\* the payload read pl at offset `at` either fails, and the `?` returns None
\* with the 0x0 grid still swapped into the decoder, or yields the bytes that
\* are expanded into the decoder's own grid;
PayloadRead(d, at, chunk, pl, checks) ==
    IF ~pl.ok
    THEN [ d |-> [d EXCEPT !.curr = pl.curr, !.bitmap = BitGridNew(0, 0)],
           panicked |-> FALSE, result |-> NoFrame ]
    ELSE FrameDone(d, pl.curr,
                   Expand(d.bitmap, chunk.compression,
                          SubSeq(d.bytes, at + 1, pl.curr), checks))

\* the grid is swapped for a 0x0 one and chunk.size bytes are read;
ChunkHeaderRead(d, at, chunk, checks) ==
    PayloadRead(d, at, chunk, next(d.bytes, at, chunk.size), checks)

\* a chunk header read that stops at the number of frames the stream
\* header declares;
HeaderReadCounted(d, hd, checks) ==
    IF ~hd.ok \/ U32(d.frame_num) = CodecHeaderRead(d.bytes).n_frames
    THEN [ d |-> [d EXCEPT !.curr = hd.curr], panicked |-> FALSE,
           result |-> NoFrame ]
    ELSE ChunkHeaderRead(d, hd.curr, ChunkRead(d.bytes, d.curr), checks)

\* the chunk header read hd either fails, and the `?` returns None, or
\* yields the chunk header at the old cursor.
HeaderRead(d, hd, checks) ==
    IF ~hd.ok
    THEN [ d |-> [d EXCEPT !.curr = hd.curr], panicked |-> FALSE,
           result |-> NoFrame ]
    ELSE ChunkHeaderRead(d, hd.curr, ChunkRead(d.bytes, d.curr), checks)

NextFrameOf(d, checks) ==
    HeaderRead(d, next(d.bytes, d.curr, ChunkSize), checks)

\* A reset that keeps the frame counter.
ResetKeepsCount(d) ==
    [d EXCEPT !.curr = HeaderSize, !.bitmap = Clear(d.bitmap)]

\* VideoDecoder::reset
ResetOf(d) ==
    [d EXCEPT !.curr = HeaderSize, !.bitmap = Clear(d.bitmap), !.frame_num = 0]

\* A construction that checks the length alone.
NewPanicsShort(b) == Len(b) < HeaderSize

\* VideoDecoder::new panics on a buffer shorter than the header (the slice
\* bytes[..128]) and on a version other than 2.
NewPanics(b) ==
    \/ Len(b) < HeaderSize
    \/ CodecHeaderRead(b).version # U32(2)

\* The grid VideoDecoder::new makes from a header.
HeaderGrid(header) == BitGridNew(header.width, header.height)

\* VideoDecoder::new on a buffer it accepts.
NewOf(b) ==
    [ bytes     |-> b,
      curr      |-> HeaderSize,
      bitmap    |-> HeaderGrid(CodecHeaderRead(b)),
      frame_num |-> 0 ]

\* A test for a cursor past the end of the buffer.
is_finishedPast(d) == d.curr > Len(d.bytes)

\* VideoDecoder::is_finished
is_finished(d) == d.curr = Len(d.bytes)

\* ------------------------------------------------------------ the harness

\* The producer: a zeroed grid with the cells of `cells` set one by one.
RECURSIVE GridWith(_, _)
GridWith(g, cells) ==
    IF cells = {}
    THEN g
    ELSE LET c == CHOOSE c \in cells : TRUE
         IN  GridWith(Set(g, c[1], c[2], TRUE), cells \ {c})

Cells(w, h) == (0..(w - 1)) \X (0..(h - 1))

\* Dimensions of the small frames: every pattern of set cells is pushed.
SmallDims == { <<1, 3>>, <<2, 1>> }

SmallFrames ==
    UNION { { GridWith(BitGridNew(d[1], d[2]), cs) :
                cs \in SUBSET Cells(d[1], d[2]) } : d \in SmallDims }

\* Single-row frames whose only set cell is the last one: an unset run of
\* 255 cells, the most the u8 counter holds, and one of 256.
LongWidths == { U8Mod, U8Mod + 1 }

LongFrames == { GridWith(BitGridNew(w, 1), { <<w - 1, 0>> }) : w \in LongWidths }

FramePool == SmallFrames \cup LongFrames

\* The grid g, of a width that fills its bytes, with every cell set.
Filled(g) == [g EXCEPT !.buf = [i \in 1..Len(g.buf) |-> U8Mod - 1]]

\* Single-row frames around the limit of the u8 run counter: a row of 255
\* or of 256 cells all unset, a row of 256 cells all set, and a row of 256
\* unset cells followed by 36 cells that alternate, set first.
RunFrames ==
    LongFrames
      \cup { BitGridNew(U8Mod - 1, 1), BitGridNew(U8Mod, 1),
              Filled(BitGridNew(U8Mod, 1)),
              GridWith(BitGridNew(U8Mod + 36, 1),
                       { << U8Mod + 2 * k, 0 >> : k \in 0..17 }) }

\* The frames of the stored streams a decoder is run over: run-length
\* chunks without and with set cells, and an uncompressed chunk.
StoredFrames ==
    { GridWith(BitGridNew(1, 3), cs) :
        cs \in { {}, { <<0, 2>> }, { <<0, 0>>, <<0, 2>> } } }

\* A grid made with a width that does not fit the i16 the grid keeps:
\* BitGrid::new(65536 + 9368, 7) has rows of 9363 bytes, 65541 in all, and
\* reports a width of 9368, so its 7 rows of 9368 cells are addressed, 1171
\* bytes a row, in its first 8197 bytes.
WideWidth == 74904

WideHeight == 7

\* n bytes with every other bit set, the lowest first.
RECURSIVE Alternating(_)
Alternating(n) ==
    IF n = 0
    THEN << >>
    ELSE IF n = 1
    THEN << 85 >>
    ELSE Alternating(n \div 2) \o Alternating(n - (n \div 2))

\* A buffer of n bytes whose first 65536 cells alternate set and clear, the
\* rest clear: more runs than the u16 size field of a chunk can count.
WideBuf(n) ==
    Alternating(U16Mod \div 8) \o SubSeq(Zeros(n), 1, n - (U16Mod \div 8))

WideFrame ==
    [ BitGridNew(WideWidth, WideHeight) EXCEPT !.buf = WideBuf(Len(@)) ]

\* Bytes a corrupted chunk-header field is overwritten with.
CorruptValues == { 0, 1, 2, 255 }

\* Offsets inside a chunk header of the fields that get corrupted: the low
\* byte of the payload size, the compression kind, the background flag.
CorruptFields == { 2, 4, 5 }

\* Offsets inside the stream header of the bytes that get corrupted: the
\* first and the last byte of the magic, the two low bytes of the version,
\* the low byte of the frame count, the first and the last reserved byte.
CorruptHeaderOffsets == { 0, 11, 12, 13, 16, 24, 127 }

\* Sequences over S of length 0..n.
RECURSIVE SeqsUpTo(_, _)
SeqsUpTo(S, n) ==
    IF n = 0
    THEN { << >> }
    ELSE LET shorter == SeqsUpTo(S, n - 1)
         IN  shorter \cup { Append(q, e) : q \in { t \in shorter : Len(t) = n - 1 },
                                           e \in S }

\* The offsets at which the chunks of a well-formed stream start, read off
\* the payload sizes its chunk headers declare.
RECURSIVE ChunkStarts(_, _)
ChunkStarts(b, off) ==
    IF off + ChunkSize > Len(b)
    THEN << >>
    ELSE << off >> \o ChunkStarts(b, off + ChunkSize + ChunkRead(b, off).size)

\* The bytes b encoded from the frames fs, as they are or with one byte
\* of a chunk header or of the stream header overwritten; starts are the
\* offsets of b's chunks.
Storings(b, fs, starts) ==
    { [ bytes |-> b, src |-> fs, corrupt |-> << >> ] }
      \cup { [ bytes   |-> [b EXCEPT ![starts[k] + f + 1] = v],
               src     |-> fs,
               corrupt |-> << starts[k] + f, v >> ] :
               k \in 1..Len(starts), f \in CorruptFields, v \in CorruptValues }
      \cup { [ bytes   |-> [b EXCEPT ![o + 1] = v],
               src     |-> fs,
               corrupt |-> << o, v >> ] :
               o \in CorruptHeaderOffsets, v \in CorruptValues }

StoringsOf(b, fs) == Storings(b, fs, ChunkStarts(b, HeaderSize))

\* The stored streams: what a build without overflow checks encodes from
\* up to MaxFrames frames.
StoredStreams ==
    UNION { StoringsOf(EncodeToVec(fs, BitGridDims(fs[1]), FALSE).bytes, fs) :
              fs \in SeqsUpTo(StoredFrames, MaxFrames) \ { << >> } }

VARIABLES
    frames,        \* VideoEncoder.frames
    dims,          \* VideoEncoder.dims: << >> is None, <<w, h>> is Some
    enc_panicked,  \* encode_to panicked
    used,          \* an encode_to call has returned on this encoder
    stream,        \* the bytes the decoder is built over
    src,           \* the frames the encode_to call that wrote them drained
    fresh,         \* they were written by the encoder's first encode_to
    corrupt,       \* << >>, or <<offset, byte>> overwritten in them
    given,         \* the buffer VideoDecoder::new was called with
    dec_state,     \* "none"; "rejected" when VideoDecoder::new panicked;
                   \* "ok"; "panicked" when next_frame panicked
    bytes,         \* VideoDecoder.bytes
    curr,          \* VideoDecoder.curr
    bitmap,        \* VideoDecoder.bitmap
    frame_num,     \* VideoDecoder.frame_num
    last,          \* what the last next_frame call returned
    calls,         \* next_frame calls since construction or the last reset
    log,           \* log[k]: what call k returned the first time it was made
    grid,          \* a BitGrid of its own, called directly
    grid_panicked, \* a call on it panicked
    op,            \* the last call on it: its arguments, the build, the grid
                   \* before it and what it returned
    ops            \* calls made on it

vars == << frames, dims, enc_panicked, used, stream, src, fresh, corrupt,
           given, dec_state, bytes, curr, bitmap, frame_num, last, calls, log,
           grid, grid_panicked, op, ops >>

gridVars == << grid, grid_panicked, op, ops >>

encVars == << frames, dims, enc_panicked, used, stream, src, fresh, corrupt >>

decVars ==
    << given, dec_state, bytes, curr, bitmap, frame_num, last, calls, log >>

Dec == [ bytes |-> bytes, curr |-> curr, bitmap |-> bitmap,
         frame_num |-> frame_num ]

NoDecoder ==
    /\ given = << >>
    /\ dec_state = "none"
    /\ bytes = << >>
    /\ curr = 0
    /\ bitmap = BitGridNew(0, 0)
    /\ frame_num = 0
    /\ last = NoFrame
    /\ calls = 0
    /\ log = << >>

\* No call made on a grid yet.
NoOp ==
    [ name |-> "none", x |-> 0, y |-> 0, elem |-> FALSE, checks |-> FALSE,
      before |-> BitGridNew(0, 0), panicked |-> FALSE, ret |-> FALSE,
      pair |-> << 0, 0 >> ]

NoGrid ==
    /\ grid = BitGridNew(0, 0)
    /\ grid_panicked = FALSE
    /\ op = NoOp
    /\ ops = 0

\* VideoEncoder::new(); no bytes written and no decoder yet.
Init ==
    /\ frames = << >>
    /\ dims = << >>
    /\ enc_panicked = FALSE
    /\ used = FALSE
    /\ stream = << >>
    /\ src = << >>
    /\ fresh = FALSE
    /\ corrupt = << >>
    /\ NoDecoder
    /\ NoGrid

\* A stored stream and no decoder yet; the encoder that wrote it is done.
InitStored ==
    /\ \E st \in StoredStreams :
         /\ stream = st.bytes
         /\ src = st.src
         /\ corrupt = st.corrupt
         /\ dims = BitGridDims(st.src[1])
    /\ frames = << >>
    /\ enc_panicked = FALSE
    /\ used = TRUE
    /\ fresh = TRUE
    /\ NoDecoder
    /\ NoGrid

\* VideoEncoder::push(frame).  The bytes of an earlier encode_to_vec are
\* dropped when the encoder is filled again.
Push(frame) ==
    /\ dec_state = "none"
    /\ ~enc_panicked
    /\ Len(frames) < MaxFrames
    /\ dims' = IF dims = << >> THEN BitGridDims(frame) ELSE dims
    /\ frames' = Append(frames, frame)
    /\ stream' = << >>
    /\ src' = << >>
    /\ fresh' = FALSE
    /\ UNCHANGED << enc_panicked, used, corrupt >>
    /\ UNCHANGED decVars
    /\ UNCHANGED gridVars

\* VideoEncoder::frame_count()
frame_count == Len(frames)

\* VideoEncoder::encode_to_vec() in a build with or without overflow checks.
Encoded(r) ==
    IF r.panicked
    THEN /\ enc_panicked' = TRUE
         /\ stream' = << >>
         /\ src' = << >>
         /\ fresh' = FALSE
         /\ UNCHANGED used
    ELSE /\ enc_panicked' = FALSE
         /\ stream' = r.bytes
         /\ src' = frames
         /\ fresh' = ~used
         /\ used' = TRUE

EncodeToKeeps(checks) ==
    /\ dec_state = "none"
    /\ ~enc_panicked
    /\ Encoded(EncodeToVec(frames, dims, checks))
    /\ frames' = frames
    /\ UNCHANGED << dims, corrupt >>
    /\ UNCHANGED decVars
    /\ UNCHANGED gridVars

\* encode_to: the queue is drained into the stream.
EncodeTo(checks) ==
    /\ dec_state = "none"
    /\ ~enc_panicked
    /\ Encoded(EncodeToVec(frames, dims, checks))
    /\ frames' = << >>
    /\ UNCHANGED << dims, corrupt >>
    /\ UNCHANGED decVars
    /\ UNCHANGED gridVars

\* VideoDecoder::new over the first `cut` bytes of the stream.
Constructed(d) ==
    /\ dec_state' = "ok"
    /\ bytes' = d.bytes
    /\ curr' = d.curr
    /\ bitmap' = d.bitmap
    /\ frame_num' = d.frame_num

NewOver(b) ==
    IF NewPanics(b)
    THEN /\ dec_state' = "rejected"
         /\ UNCHANGED << bytes, curr, bitmap, frame_num >>
    ELSE Constructed(NewOf(b))

NewDecoder(cut) ==
    /\ dec_state = "none"
    /\ stream # << >>
    /\ given' = SubSeq(stream, 1, cut)
    /\ NewOver(SubSeq(stream, 1, cut))
    /\ UNCHANGED << last, calls, log >>
    /\ UNCHANGED encVars
    /\ UNCHANGED gridVars

\* VideoDecoder::next_frame() in a build with or without overflow checks.
Returned(r) ==
    /\ curr' = r.d.curr
    /\ bitmap' = r.d.bitmap
    /\ frame_num' = r.d.frame_num
    /\ IF r.panicked
       THEN /\ dec_state' = "panicked"
            /\ UNCHANGED << last, calls, log >>
       ELSE /\ dec_state' = "ok"
            /\ last' = r.result
            /\ calls' = calls + 1
            /\ log' = IF calls + 1 > Len(log)
                      THEN Append(log, r.result)
                      ELSE log

NextFrame(checks) ==
    /\ dec_state = "ok"
    /\ calls < MaxCalls
    /\ Returned(NextFrameOf(Dec, checks))
    /\ UNCHANGED << given, bytes >>
    /\ UNCHANGED encVars
    /\ UNCHANGED gridVars

\* VideoDecoder::reset()
WasReset(d) ==
    /\ curr' = d.curr
    /\ bitmap' = d.bitmap
    /\ frame_num' = d.frame_num

Reset ==
    /\ dec_state = "ok"
    /\ WasReset(ResetOf(Dec))
    /\ calls' = 0
    /\ last' = NoFrame
    /\ UNCHANGED << given, dec_state, bytes, log >>
    /\ UNCHANGED encVars
    /\ UNCHANGED gridVars

\* The encoder is filled and run, any number of times, and a decoder is
\* then built over the whole of the bytes it returned.
Next ==
    \/ \E frame \in FramePool : Push(frame)
    \/ \E checks \in BOOLEAN : EncodeTo(checks)
    \/ NewDecoder(Len(stream))
    \/ \E checks \in BOOLEAN : NextFrame(checks)
    \/ Reset

Spec == Init /\ [][Next]_vars

\* A decoder is built over a stored stream cut at any length from 127 bytes
\* (one short of a header) up.
NextStored ==
    \/ \E cut \in (HeaderSize - 1)..Len(stream) : NewDecoder(cut)
    \/ \E checks \in BOOLEAN : NextFrame(checks)
    \/ Reset

SpecStored == InitStored /\ [][NextStored]_vars

\* The round trip of single-row frames around the limit of the run counter.
NextRuns ==
    \/ \E frame \in RunFrames : Push(frame)
    \/ \E checks \in BOOLEAN : EncodeTo(checks)
    \/ NewDecoder(Len(stream))
    \/ \E checks \in BOOLEAN : NextFrame(checks)
    \/ Reset

SpecRuns == Init /\ [][NextRuns]_vars

\* Buffers made by hand for a 3x2 grid: a header, then one or two
\* run-length chunks whose payloads are any bytes.
PayloadDims == << 3, 2 >>

\* The run bytes of the payloads, and how many a payload has at most.
RunBytes == { 0, 1, 2, 3 }

MaxPayload == 4

Payloads == SeqsUpTo(RunBytes, MaxPayload)

\* Payloads of a chunk put before the one under test: none, or one that
\* sets every cell, or one that sets every other cell.
EarlierPayloads == { << >>, << << 0, 6 >> >>, << << 1, 1, 1, 1, 1, 1 >> >> }

\* A run-length chunk with the payload pl.
HandChunk(pl) ==
    ChunkBytes(ChunkNew(Len(pl), RUN_LENGTH_ENCODING, 0)) \o pl

RECURSIVE HandChunks(_)
HandChunks(pls) ==
    IF pls = << >> THEN << >> ELSE HandChunk(pls[1]) \o HandChunks(Tail(pls))

HandStreamFor(ds, pls) ==
    HeaderBytes(CodecHeaderNew(Len(pls), ds[1], ds[2])) \o HandChunks(pls)

HandStream(pls) == HandStreamFor(PayloadDims, pls)

\* A single row wide enough for x + width to leave the i16 range at its
\* last cell, and a payload that sets that cell alone: 64 unset runs of 255
\* cells, each followed by an empty set run, then 64 unset cells and one set.
WideRowWidth == 16385

RECURSIVE UnsetRuns(_)
UnsetRuns(n) == IF n = 0 THEN << >> ELSE << U8Mod - 1, 0 >> \o UnsetRuns(n - 1)

WideRowPayload == UnsetRuns(64) \o << 64, 1 >>

WideRowStream == HandStreamFor(<< WideRowWidth, 1 >>, << WideRowPayload >>)

\* A buffer made by hand and no decoder yet; no encoder wrote it.
InitPayloads ==
    /\ \/ \E earlier \in EarlierPayloads, pl \in Payloads :
            stream = HandStream(Append(earlier, pl))
       \/ stream = WideRowStream
    /\ src = << >>
    /\ corrupt = << >>
    /\ dims = << >>
    /\ frames = << >>
    /\ enc_panicked = FALSE
    /\ used = FALSE
    /\ fresh = FALSE
    /\ NoDecoder
    /\ NoGrid

\* A decoder is built over the whole of a hand-made buffer and run.
NextPayloads ==
    \/ NewDecoder(Len(stream))
    \/ \E checks \in BOOLEAN : NextFrame(checks)
    \/ Reset

SpecPayloads == InitPayloads /\ [][NextPayloads]_vars

\* No frame of the queue is a wide one.
NarrowQueue == \A i \in 1..Len(frames) : Len(frames[i].buf) <= U8Mod

\* The push of a frame into the empty queue of an encoder not yet run.
PushAlone(frame) ==
    /\ frames = << >>
    /\ ~used
    /\ Push(frame)

\* The encoder is filled with small frames, or with the wide frame alone,
\* and run.
NextWide ==
    \/ \E frame \in SmallFrames : NarrowQueue /\ Push(frame)
    \/ PushAlone(WideFrame)
    \/ \E checks \in BOOLEAN : EncodeTo(checks)

SpecWide == Init /\ [][NextWide]_vars

\* ------------------------------------------------------- calls on a grid

\* Widths and heights BitGrid::new is called with: narrower than a byte,
\* wider than one, and wide enough for x + width to leave the i16 range.
GridDims == { << 3, 2 >>, << 9, 2 >>, << 16385, 1 >> }

\* Coordinates the calls are made with: inside the grid, one or more
\* widths or heights outside it, and at the end of the i16 range.
NearCoords ==
    { << 0, 0 >>, << 2, 1 >>, << 7, 0 >>, << 8, 1 >>, << -1, -1 >>,
      << -4, 0 >>, << -10, 0 >>, << 9, 2 >>, << 1, -3 >>, << 32767, 0 >> }

FarCoords == { << 0, 0 >>, << 9, 0 >>, << 16384, 0 >> }

CoordsOf(g) == IF g.width > U8Mod THEN FarCoords ELSE NearCoords

\* A grid just made, and no call on it yet.
InitGrid ==
    /\ frames = << >>
    /\ dims = << >>
    /\ enc_panicked = FALSE
    /\ used = FALSE
    /\ stream = << >>
    /\ src = << >>
    /\ fresh = FALSE
    /\ corrupt = << >>
    /\ NoDecoder
    /\ \E d \in GridDims : grid = BitGridNew(d[1], d[2])
    /\ grid_panicked = FALSE
    /\ op = NoOp
    /\ ops = 0

\* The call and the grid it was made on.
Call(name, x, y, elem, checks) ==
    [ NoOp EXCEPT !.name = name, !.x = x, !.y = y, !.elem = elem,
                  !.checks = checks, !.before = grid ]

\* The call panicked: the grid is as it was (the index is computed and the
\* byte read before anything is written).
CallPanicked(c) ==
    /\ op' = [c EXCEPT !.panicked = TRUE]
    /\ grid_panicked' = TRUE
    /\ grid' = grid

\* The call returned ret and left the grid g.
CallReturned(c, g, ret) ==
    /\ op' = [c EXCEPT !.ret = ret]
    /\ grid_panicked' = FALSE
    /\ grid' = g

\* get, set or flip, which leaves the grid g when it does not panic.
CellCall(c, g) ==
    /\ ~grid_panicked
    /\ ops < MaxOps
    /\ ops' = ops + 1
    /\ IF CellPanics(grid, c.x, c.y, c.checks)
       THEN CallPanicked(c)
       ELSE CallReturned(c, g, Get(grid, c.x, c.y))
    /\ UNCHANGED encVars
    /\ UNCHANGED decVars

GridGet(x, y, checks) == CellCall(Call("get", x, y, FALSE, checks), grid)

GridSet(x, y, elem, checks) ==
    CellCall(Call("set", x, y, elem, checks),
             IF CellPanics(grid, x, y, checks)
             THEN grid
             ELSE Set(grid, x, y, elem))

GridFlip(x, y, checks) ==
    CellCall(Call("flip", x, y, FALSE, checks),
             IF CellPanics(grid, x, y, checks)
             THEN grid
             ELSE Flip(grid, x, y))

\* What idx() returns: (idx as usize, bit as u8).  A negative idx stands for
\* the usize 2^64 + idx.
IdxPair(c) == << c.idx, c.bit % U8Mod >>

\* idx() panics on a zero width or height, and under checks on an overflow.
IdxPanics(g, x, y, checks) ==
    \/ IdxDivByZero(g)
    \/ checks /\ IdxOverflows(g, x, y)

IdxReturned(c) ==
    /\ op' = [c EXCEPT !.pair = IdxPair(Idx(grid, c.x, c.y))]
    /\ grid_panicked' = FALSE
    /\ grid' = grid

GridIdx(x, y, checks) ==
    /\ ~grid_panicked
    /\ ops < MaxOps
    /\ ops' = ops + 1
    /\ IF IdxPanics(grid, x, y, checks)
       THEN CallPanicked(Call("idx", x, y, FALSE, checks))
       ELSE IdxReturned(Call("idx", x, y, FALSE, checks))
    /\ UNCHANGED encVars
    /\ UNCHANGED decVars

\* Calls on a grid, in a build with or without overflow checks.
NextGrid ==
    \/ \E c \in CoordsOf(grid), checks \in BOOLEAN :
          GridGet(c[1], c[2], checks)
    \/ \E c \in CoordsOf(grid), elem \in BOOLEAN, checks \in BOOLEAN :
          GridSet(c[1], c[2], elem, checks)
    \/ \E c \in CoordsOf(grid), checks \in BOOLEAN :
          GridFlip(c[1], c[2], checks)
    \/ \E c \in CoordsOf(grid), checks \in BOOLEAN :
          GridIdx(c[1], c[2], checks)

SpecGrid == InitGrid /\ [][NextGrid]_vars

\* ------------------------------------------------------------- properties

\* The frames all have the same width and height.
SameDims(fs) ==
    \A i \in 1..Len(fs) : BitGridDims(fs[i]) = BitGridDims(fs[1])

\* The step is a next_frame call on a working decoder: it returns (one more
\* call is counted) or it panics.
CallMade ==
    /\ dec_state = "ok"
    /\ calls' = calls + 1 \/ dec_state' = "panicked"

\* The chunk of a stream that starts at offset off: header and payload.
ChunkAt(b, off) == SubSeq(b, off + 1, off + ChunkSize + ChunkRead(b, off).size)

\* The number of chunks, from offset off on, that lie wholly inside b.
RECURSIVE WholeChunks(_, _)
WholeChunks(b, off) ==
    IF off + ChunkSize > Len(b)
    THEN 0
    ELSE IF off + ChunkSize + ChunkRead(b, off).size > Len(b)
    THEN 0
    ELSE 1 + WholeChunks(b, off + ChunkSize + ChunkRead(b, off).size)

\* Call number k of a pass over n frames fs returned r: frame k with id k
\* up to n, none at n + 1.
PassReturns(k, r, fs, n) ==
    /\ k <= n => r = SomeFrame(k, fs[k])
    /\ k > n => ~r.some

\* C1 (as stated): equal-sized grids pushed into a fresh encoder, encoded,
\* and decoded from the produced bytes come back in order: call k of the
\* first pass returns frame k with id k and a bitmap equal to the k-th
\* pushed grid, call N + 1 returns none, and no call panics.
C1_RoundTrip ==
    (fresh /\ SameDims(src) /\ dec_state \in { "ok", "panicked" }
       /\ Len(log) = calls)
      => /\ dec_state = "ok"
         /\ calls >= 1 => PassReturns(calls, last, src, Len(src))

\* C2: over a stream the encoder wrote from equal-sized frames, call k of
\* every pass (after any number of resets) returns what call k returned the
\* first time it was made, and a returned frame's id is k.
C2_IdempotentReplay ==
    (dec_state = "ok" /\ SameDims(src) /\ calls >= 1)
      => /\ last = log[calls]
         /\ last.some => last.id = calls

\* C2 witness: a first pass of two frames ran to none, the decoder was
\* reset, and the second pass has returned its second frame.
C2_Witness ==
    /\ dec_state = "ok"
    /\ SameDims(src)
    /\ Len(src) = 2
    /\ Len(log) = 3
    /\ ~log[3].some
    /\ calls = 2
    /\ last.some

\* C3: on any accepted buffer, a next_frame call made after a call that
\* returned none, with no reset in between, returns none as well.
C3_Exhaustion ==
    [][ (CallMade /\ calls >= 1 /\ ~last.some)
          => (dec_state' = "ok" /\ ~last'.some) ]_vars

\* C3 witness: two calls of the current pass have returned none (the frame
\* counter counts the calls of the pass that returned a frame), the first of
\* them on a chunk whose declared payload is longer than what is left.
C3_Witness ==
    /\ dec_state = "ok"
    /\ calls >= frame_num + 2
    /\ ~last.some
    /\ bitmap = BitGridNew(0, 0)
    /\ Len(bytes) > HeaderSize + ChunkSize

\* C4 (as stated): a decoder on which no call was made since its
\* construction or its last reset is in the state construction gives on
\* its buffer: cursor past the header, frame counter 0, an all-zero grid
\* of the header's width and height.
C4_ResetRestores ==
    (dec_state = "ok" /\ calls = 0) => Dec = NewOf(bytes)

\* C5 (as stated): the decoder's grid always has the width, the height and
\* the byte length the stream header implies.
C5_PersistentGrid ==
    dec_state = "ok"
      => /\ bitmap.width = HeaderGrid(CodecHeaderRead(bytes)).width
         /\ bitmap.height = HeaderGrid(CodecHeaderRead(bytes)).height
         /\ Len(bitmap.buf) = Len(HeaderGrid(CodecHeaderRead(bytes)).buf)

\* C6 (as stated): over an encoded stream cut at any length from 128 bytes
\* up, no next_frame call panics, and call k of every pass returns the
\* frame of the k-th chunk while k chunks lie wholly inside the buffer, and
\* none after them.
C6_SurvivesTruncation ==
    (corrupt = << >> /\ dec_state \in { "ok", "panicked" })
      => /\ dec_state = "ok"
         /\ calls >= 1
              => PassReturns(calls, last, src, WholeChunks(bytes, HeaderSize))

\* Fewer than a chunk header's bytes remain at the cursor, or the chunk
\* header there declares more payload than remains after it.
ShortAtCursor ==
    \/ Len(bytes) - curr < ChunkSize
    \/ ChunkRead(bytes, curr).size > Len(bytes) - curr - ChunkSize

\* C7: a next_frame call made when fewer than 6 bytes remain at the cursor,
\* or when the chunk header declares more payload than remains, returns
\* none without panicking, leaves the cursor at the buffer's length and
\* does not count a frame.
C7_EndOfStream ==
    [][ (CallMade /\ ShortAtCursor)
          => /\ dec_state' = "ok"
             /\ ~last'.some
             /\ curr' = Len(bytes)
             /\ frame_num' = frame_num ]_vars

\* C7 witness: the first call of a pass has returned none on a buffer whose
\* first chunk header is whole and declares more payload than remains.
C7_Witness ==
    /\ dec_state = "ok"
    /\ calls = 1
    /\ ~last.some
    /\ curr = Len(bytes)
    /\ frame_num = 0
    /\ Len(bytes) >= HeaderSize + ChunkSize
    /\ ChunkRead(bytes, HeaderSize).size > Len(bytes) - HeaderSize - ChunkSize

\* The header at the front of b declares no frames and a 0x0 grid, and its
\* reserved region is all zero.
EmptyHeader(b) ==
    /\ CodecHeaderRead(b).n_frames = U32(0)
    /\ CodecHeaderRead(b).width = 0
    /\ CodecHeaderRead(b).height = 0
    /\ \A i \in (HeaderSize - ReservedLen + 1)..HeaderSize : b[i] = 0

\* C8: the bytes encode_to writes on an encoder no frame was ever pushed to
\* are exactly a 128-byte header with frame count 0, width 0, height 0 and
\* a zero reserved region, and a decoder over them returns none from every
\* next_frame call.
C8_EmptyStream ==
    (dims = << >> /\ stream # << >>)
      => /\ Len(stream) = HeaderSize
         /\ EmptyHeader(stream)
         /\ dec_state \in { "none", "ok" }
         /\ ~last.some
         /\ frame_num = 0

\* C8 witness: every call the bound allows was made on a decoder over the
\* bytes of an encoder nothing was pushed to.
C8_Witness ==
    /\ dims = << >>
    /\ Len(stream) = HeaderSize
    /\ dec_state = "ok"
    /\ calls = MaxCalls

\* The chunk written for a frame is its uncompressed chunk, of 6 bytes and
\* one byte per 8 cells of each row, when that is no longer than its
\* run-length chunk, and its run-length chunk when that is shorter.
WrittenAsChosen(chunk, frame, uncompressed_bytes, runlength_bytes) ==
    /\ Len(uncompressed_bytes)
         = ChunkSize + ((frame.width + 7) \div 8) * frame.height
    /\ Len(uncompressed_bytes) <= Len(runlength_bytes)
         => chunk = uncompressed_bytes
    /\ Len(runlength_bytes) < Len(uncompressed_bytes)
         => chunk = runlength_bytes

\* The chunks at the offsets starts of the stream b are one per frame of
\* fs, each the chosen one, and they end where b ends.
ChunksAsChosen(b, fs, starts) ==
    /\ Len(starts) = Len(fs)
    /\ \A k \in 1..Len(fs) :
         WrittenAsChosen(ChunkAt(b, starts[k]), fs[k],
                         compress_uncompressed(fs[k]),
                         compress_runlength(fs[k], FALSE).bytes)
    /\ Len(b) = IF fs = << >>
                THEN HeaderSize
                ELSE starts[Len(fs)] + Len(ChunkAt(b, starts[Len(fs)]))

\* C9: encode_to writes exactly one chunk per frame: the uncompressed one
\* when its length is less than or equal to the run-length chunk's, the
\* run-length one only when that is strictly shorter.
C9_CompressionSelection ==
    (dec_state = "none" /\ stream # << >>)
      => ChunksAsChosen(stream, src, ChunkStarts(stream, HeaderSize))

\* The two chunks of a frame have the same length.
Tie(frame) ==
    Len(compress_uncompressed(frame)) = Len(compress_runlength(frame, FALSE).bytes)

\* C9 witness: a stream of two frames was written, the first a tie and
\* written uncompressed, the second written run-length encoded.
C9_Witness ==
    /\ dec_state = "none"
    /\ Len(src) = 2
    /\ stream # << >>
    /\ Tie(src[1])
    /\ ChunkRead(stream, HeaderSize).compression = UNCOMPRESSED
    /\ ChunkRead(stream, ChunkStarts(stream, HeaderSize)[2]).compression
         = RUN_LENGTH_ENCODING

\* C10 (as stated): the width and height in the header of every stream
\* encode_to writes from a non-empty queue are those of the first frame of
\* that stream.
C10_DimsFromFirstFrame ==
    (dec_state = "none" /\ stream # << >> /\ src # << >>)
      => /\ CodecHeaderRead(stream).width = BitGridDims(src[1])[1] % U16Mod
         /\ CodecHeaderRead(stream).height = BitGridDims(src[1])[2] % U16Mod

\* The buffer b is shorter than a header, or its version field is not 2.
Unreadable(b) ==
    \/ Len(b) < HeaderSize
    \/ CodecHeaderRead(b).version # U32(VERSION)

\* C11: VideoDecoder::new fails on every buffer that is shorter than 128
\* bytes or whose version field differs from 2, and a failed construction
\* leaves no decoder: no buffer is held, no call is made, no frame returned.
C11_ConstructionFails ==
    dec_state # "none"
      => /\ Unreadable(given) => dec_state = "rejected"
         /\ dec_state = "rejected"
              => (bytes = << >> /\ calls = 0 /\ ~last.some /\ log = << >>)

\* C11 witness: construction has failed over a buffer that holds a whole
\* header whose version field is not 2.
C11_Witness ==
    /\ dec_state = "rejected"
    /\ Len(given) >= HeaderSize
    /\ CodecHeaderRead(given).version # U32(VERSION)

\* C12 (as stated): a decoder is constructed only over a buffer whose
\* first 12 bytes are the magic constant.
C12_MagicMustMatch ==
    dec_state \in { "ok", "panicked" } => CodecHeaderRead(given).magic = MAGIC

C13_IsFinished ==
    dec_state = "ok"
      => /\ is_finished(Dec) <=> curr = Len(bytes)
         /\ is_finished(Dec) <=> calls >= Len(src)
         /\ (calls >= 1 /\ ~last.some) => is_finished(Dec)

\* C13 witness: the second frame of a two-frame stream has just been
\* returned, in a pass made after a reset, and is_finished() is true.
C13_Witness ==
    /\ dec_state = "ok"
    /\ Len(src) = 2
    /\ calls = 2
    /\ Len(log) = 3
    /\ last.some
    /\ is_finished(Dec)

\* The first 128 bytes of b are, little-endian: the magic at offset 0,
\* version 2 at offset 12, n at offset 16, w at offset 20, h at offset 22,
\* and 104 zero bytes at offset 24.
HeaderAsLaidOut(b, n, w, h) ==
    /\ Len(b) >= 128
    /\ SubSeq(b, 1, 12) = << 66, 73, 84, 86, 73, 68, 69, 79, 240, 159, 141, 142 >>
    /\ SubSeq(b, 13, 16) = << 2, 0, 0, 0 >>
    /\ SubSeq(b, 17, 20) = << n % 256, (n \div 256) % 256,
                              (n \div 65536) % 256, (n \div 16777216) % 256 >>
    /\ SubSeq(b, 21, 22) = << w % 256, (w \div 256) % 256 >>
    /\ SubSeq(b, 23, 24) = << h % 256, (h \div 256) % 256 >>
    /\ \A i \in 25..128 : b[i] = 0

\* C15: the first 128 bytes encode_to writes are the magic, version 2, the
\* number of frames that were queued, the encoder's width and height (0
\* when nothing was ever pushed) and 104 zero bytes, at offsets 0, 12, 16,
\* 20, 22 and 24, little-endian.
C15_HeaderLayout ==
    (dec_state = "none" /\ stream # << >>)
      => HeaderAsLaidOut(stream, Len(src),
                         IF dims = << >> THEN 0 ELSE dims[1],
                         IF dims = << >> THEN 0 ELSE dims[2])

\* C15 witness: a stream of two frames 257 cells wide was written, so that
\* both bytes of the width are non-zero.
C15_Witness ==
    /\ dec_state = "none"
    /\ stream # << >>
    /\ Len(src) = 2
    /\ dims = << U8Mod + 1, 1 >>

\* The bytes of b from offset off on are n chunks and nothing else: each a
\* 6-byte header (kind 1, the payload size, a compression byte 0 or 1, a
\* background byte 0) followed by as many payload bytes as the size
\* declares.
RECURSIVE Framed(_, _, _)
Framed(b, off, n) ==
    IF n = 0
    THEN off = Len(b)
    ELSE /\ off + 6 <= Len(b)
         /\ SubSeq(b, off + 1, off + 2) = << 1, 0 >>
         /\ b[off + 5] \in { 0, 1 }
         /\ b[off + 6] = 0
         /\ Framed(b, off + 6 + b[off + 3] + 256 * b[off + 4], n - 1)

\* C16 (as stated): what encode_to writes after the 128-byte header is one
\* chunk per frame, each a 6-byte header (kind 1, payload size, compression
\* 0 or 1, background 0) followed by exactly as many payload bytes as its
\* size field declares, so that the stream is 128 + the sum of (6 + declared
\* size) bytes long.
C16_ChunkFraming ==
    (dec_state = "none" /\ stream # << >>) => Framed(stream, 128, Len(src))

\* C17: encode_to consumes the frame queue. After an encode_to that returned,
\* frame_count() is 0, and when the step before it left a written stream too
\* (an encode_to with no push since), what it wrote is a 128-byte header
\* whose frame count is 0 and no chunk.
C17_ConsumesQueue ==
    [][ (dec_state' = "none" /\ stream' # << >>)
        => /\ frame_count' = 0
           /\ (stream # << >>
               => /\ Len(stream') = HeaderSize
                  /\ CodecHeaderRead(stream').n_frames = U32(0)) ]_vars

\* A second encode_to has run on an encoder that had encoded pushed frames.
C17_Witness ==
    /\ dec_state = "none"
    /\ stream # << >>
    /\ used
    /\ ~fresh
    /\ src = << >>
    /\ dims # << >>

\* The layout the specification gives a grid: cell (x, y) is bit x mod 8 of
\* byte (x div 8) + y * ceil(width / 8).
CellByte(g, x, y) == (x \div 8) + y * ((g.width + 7) \div 8)

CellBit(x) == x % 8

CellValue(g, x, y) == BitOf(g.buf[CellByte(g, x, y) + 1], CellBit(x)) = 1

\* The grid g with cell (x, y) holding v and every other bit as it was.
WithCell(g, x, y, v) ==
    [g EXCEPT !.buf[CellByte(g, x, y) + 1] = WithBit(@, CellBit(x), v)]

InGrid(g, x, y) == 0 <= x /\ x < g.width /\ 0 <= y /\ y < g.height

\* The last call was get, set or flip.
CellOp == op.name \in { "get", "set", "flip" }

\* What the call should have left of the grid g when it addressed cell
\* (x, y): get and idx nothing new, set the cell holding elem, flip the cell
\* holding the opposite of what it held.
LeftBy(g, x, y) ==
    IF op.name = "set"
    THEN WithCell(g, x, y, op.elem)
    ELSE IF op.name = "flip"
    THEN WithCell(g, x, y, ~CellValue(g, x, y))
    ELSE g

\* C18 (as stated): for every 0 <= x < W and 0 <= y < H, idx(x, y) returns
\* the pair (x div 8 + y * ceil(W / 8), x mod 8), and get, set and flip read
\* and write exactly that bit: they return what it held, and leave the grid
\* with that bit written and nothing else changed.
C18_Layout ==
    (op.name # "none" /\ InGrid(op.before, op.x, op.y))
    => /\ ~op.panicked
       /\ op.name = "idx"
          => op.pair = << CellByte(op.before, op.x, op.y), CellBit(op.x) >>
       /\ CellOp => op.ret = CellValue(op.before, op.x, op.y)
       /\ grid = LeftBy(op.before, op.x, op.y)

\* C19 (as stated): on a grid of width W >= 1 and height H >= 1, get, set and
\* flip with any signed 16-bit coordinates (x, y) complete without a fault
\* and address the cell (x mod W, y mod H), the modulus being the
\* non-negative one: they return what that cell held and leave the grid with
\* that cell written and nothing else changed.
C19_Toroidal ==
    (CellOp /\ op.before.width >= 1 /\ op.before.height >= 1)
    => /\ ~op.panicked
       /\ op.ret = CellValue(op.before, op.x % op.before.width,
                             op.y % op.before.height)
       /\ grid = LeftBy(op.before, op.x % op.before.width,
                        op.y % op.before.height)

\* Every cell of g other than (x, y) holds in h what it holds in g.
OthersUnchanged(g, h, x, y) ==
    \A cx \in 0..(g.width - 1), cy \in 0..(g.height - 1) :
        << cx, cy >> # << x, y >> => CellValue(h, cx, cy) = CellValue(g, cx, cy)

\* A get(x, y) on the grid as it is now returns v.
GetReturns(x, y, v) ==
    /\ ~CellPanics(grid, x, y, op.checks)
    /\ Get(grid, x, y) = v

\* C20 (as stated): set(x, y, v) returns the value the cell held before the
\* call, makes a following get(x, y) return v, and leaves every other cell
\* of the grid unchanged.
C20_SetFrame ==
    op.name = "set"
    => /\ ~op.panicked
       /\ op.ret = CellValue(op.before, op.x % op.before.width,
                             op.y % op.before.height)
       /\ GetReturns(op.x, op.y, op.elem)
       /\ OthersUnchanged(op.before, grid, op.x % op.before.width,
                          op.y % op.before.height)

\* The last call was a flip that returned what cell (x, y) held and left the
\* grid with that cell inverted and every other cell as it was.
Flipped(x, y) ==
    /\ ~op.panicked
    /\ op.ret = CellValue(op.before, x, y)
    /\ CellValue(grid, x, y) = ~CellValue(op.before, x, y)
    /\ OthersUnchanged(op.before, grid, x, y)

\* The step is a flip that follows a flip of the same cell.
FlipAgain ==
    /\ op.name = "flip"
    /\ ~op.panicked
    /\ op'.name = "flip"
    /\ ops' = ops + 1
    /\ op'.x = op.x
    /\ op'.y = op.y

\* C21 (as stated): flip(x, y) returns the value the cell held before the
\* call, inverts that one cell and leaves every other cell unchanged; and a
\* second flip of the same cell leaves the grid exactly as it was before
\* the first.
C21_Flip ==
    /\ [](op.name = "flip"
          => Flipped(op.x % op.before.width, op.y % op.before.height))
    /\ [][ FlipAgain => (~op'.panicked /\ grid' = op.before) ]_vars

\* The pixel at row-major position p (x fastest) of a frame, and the number
\* of its pixels.
PixelAt(frame, p) == Get(frame, p % frame.width, p \div frame.width)

PixelCount(frame) == ScanArea(frame)

\* The positions at which a maximal same-colour run starts.
RunStarts(frame) ==
    { p \in 0..(PixelCount(frame) - 1) :
        p = 0 \/ PixelAt(frame, p) # PixelAt(frame, p - 1) }

\* The first of the positions `starts`, or the end n, after position p.
NextStart(starts, p, n) ==
    CHOOSE q \in starts \cup { n } :
        /\ q > p
        /\ \A r \in starts \cup { n } : r > p => q <= r

\* The lengths of the runs from the one starting at p on.
RECURSIVE RunsFrom(_, _, _)
RunsFrom(starts, p, n) ==
    IF p >= n
    THEN << >>
    ELSE << NextStart(starts, p, n) - p >>
           \o RunsFrom(starts, NextStart(starts, p, n), n)

\* The maximal same-colour runs of a frame in row-major order, colours
\* alternating and starting with the unset colour: an empty first run when
\* pixel (0, 0) is set.
RunsOf(frame) ==
    IF PixelCount(frame) = 0
    THEN << >>
    ELSE (IF PixelAt(frame, 0) THEN << 0 >> ELSE << >>)
           \o RunsFrom(RunStarts(frame), 0, PixelCount(frame))

\* The longest run of r is n pixels long.
LongestIs(r, n) ==
    /\ \E i \in 1..Len(r) : r[i] = n
    /\ \A i \in 1..Len(r) : r[i] <= n

\* No run of r is longer than the u8 counter holds, but for an unset run
\* that ends the frame.
OnlyLastUnsetLong(r) ==
    \A i \in 1..Len(r) : r[i] >= U8Mod => (i = Len(r) /\ i % 2 = 1)

\* One single-row frame was encoded by a fresh encoder and the first
\* next_frame call on the bytes has been made.
FirstCallOnRow ==
    /\ fresh
    /\ Len(src) = 1
    /\ src[1].height = 1
    /\ \/ dec_state = "panicked" /\ Len(log) = 0
       \/ dec_state = "ok" /\ calls = 1 /\ Len(log) = 1

\* The call returned frame 1 with a grid equal to the pushed one.
RoundTrips == dec_state = "ok" /\ last = SomeFrame(1, src[1])

\* The stream's first chunk is a run-length one.
RunLengthWritten == stream[HeaderSize + 5] = RUN_LENGTH_ENCODING

RECURSIVE SumOf(_)
SumOf(q) ==
    IF Len(q) = 0
    THEN 0
    ELSE IF Len(q) = 1
    THEN q[1]
    ELSE SumOf(SubSeq(q, 1, Len(q) \div 2))
           + SumOf(SubSeq(q, Len(q) \div 2 + 1, Len(q)))

\* The payload b is the runs of the frame, one byte each; its first byte is
\* 0 exactly when pixel (0, 0) is set, no other byte is 0, and the bytes sum
\* to the number of pixels.
ShapedAsRuns(b, frame) ==
    /\ b = RunsOf(frame)
    /\ PixelAt(frame, 0) <=> b[1] = 0
    /\ \A i \in 2..Len(b) : b[i] # 0
    /\ SumOf(b) = frame.width * frame.height

\* In either build compress_runlength returns, and its payload is the runs
\* of the frame.
PayloadIsRuns(frame) ==
    \A checks \in BOOLEAN :
        /\ ~RunLengthPayload(frame, checks).panicked
        /\ ShapedAsRuns(RunLengthPayload(frame, checks).bytes, frame)

InSetRun(b, p) ==
    \E j \in 1..Len(b) :
        /\ j % 2 = 0
        /\ SumOf(SubSeq(b, 1, j - 1)) <= p
        /\ p < SumOf(SubSeq(b, 1, j))

\* The grid g is w cells wide and h high, and its cell at row-major
\* position p is set exactly when p falls inside an odd-index run of b.
DecodedAsRuns(g, b, w, h) ==
    /\ g.width = w
    /\ g.height = h
    /\ \A p \in 0..(w * h - 1) :
         CellValue(g, p % w, p \div w) <=> InSetRun(b, p)

\* The payload of the chunk at the cursor.
PayloadAtCursor ==
    SubSeq(bytes, curr + ChunkSize + 1,
           curr + ChunkSize + ChunkRead(bytes, curr).size)

\* The decoder's grid has cells, and the chunk at the cursor is a whole
\* run-length chunk whose runs fit the grid.
RunsFitAtCursor ==
    /\ bitmap.width >= 1
    /\ bitmap.height >= 1
    /\ ~ShortAtCursor
    /\ ChunkRead(bytes, curr).compression = RUN_LENGTH_ENCODING
    /\ SumOf(PayloadAtCursor) <= bitmap.width * bitmap.height

\* C24: for a decoder grid of width W >= 1 and height H >= 1, whatever it
\* held, and a run-length chunk whose payload bytes sum to at most W * H,
\* next_frame returns the grid in which the cell at row-major position p is
\* set exactly when p falls inside a run with odd index, a missing final
\* odd-index byte counting as 0; nothing of the grid's earlier content
\* survives.
C24_RunLengthDecoding ==
    [][ (CallMade /\ RunsFitAtCursor)
          => /\ dec_state' = "ok"
             /\ last'.some
             /\ DecodedAsRuns(last'.bitmap, PayloadAtCursor,
                              bitmap.width, bitmap.height) ]_vars

\* C25: a next_frame call that returns a frame has moved the cursor by
\* exactly 6 plus the payload size the chunk at the old cursor declares and
\* has raised the frame counter by exactly 1, the returned id being the new
\* counter; so the k-th call since construction or the last reset, when it
\* returns a frame, returns it with id k.
C25_OneChunkPerFrame ==
    /\ [][ (CallMade /\ dec_state' = "ok" /\ last'.some)
             => /\ curr' = curr + 6 + ChunkRead(bytes, curr).size
                /\ frame_num' = frame_num + 1
                /\ last'.id = frame_num' ]_vars
    /\ []((dec_state = "ok" /\ calls >= 1 /\ last.some)
            => (last.id = calls /\ frame_num = calls))

\* The second frame of a second pass has been returned.
C25_Witness ==
    /\ dec_state = "ok"
    /\ Len(log) >= 3
    /\ calls = 2
    /\ last.some
    /\ last.id = 2
    /\ curr = Len(bytes)

\* The bytes of a grid of the width and height the header of b declares.
HeaderGridBytes(b) ==
    ((CodecHeaderRead(b).width + 7) \div 8) * CodecHeaderRead(b).height

\* The chunk at the cursor is whole and its compression kind is 0.
UncompressedAtCursor ==
    /\ ~ShortAtCursor
    /\ ChunkRead(bytes, curr).compression = UNCOMPRESSED

\* C26: a next_frame call on a whole chunk of compression kind 0 returns a
\* frame only when the declared payload size is ceil(width / 8) * height
\* for the header's width and height, and the frame's grid then holds the
\* payload; with any other payload size the call panics.
C26_UncompressedLength ==
    [][ (CallMade /\ UncompressedAtCursor)
          => /\ (dec_state' = "ok" /\ last'.some)
                  => /\ ChunkRead(bytes, curr).size = HeaderGridBytes(bytes)
                     /\ last'.bitmap.buf = PayloadAtCursor
             /\ ChunkRead(bytes, curr).size # HeaderGridBytes(bytes)
                  => dec_state' = "panicked"
             /\ dec_state' = "panicked" \/ last'.some ]_vars

\* A call on a whole uncompressed chunk that declares 2 bytes for a grid of
\* 3 has panicked.
C26_Witness ==
    /\ dec_state = "panicked"
    /\ frame_num = 0
    /\ HeaderGridBytes(bytes) = 3
    /\ ChunkRead(bytes, HeaderSize).compression = UNCOMPRESSED
    /\ ChunkRead(bytes, HeaderSize).size = 2
    /\ Len(bytes) >= HeaderSize + ChunkSize + 2

\* The chunk at the cursor is whole and its compression byte is neither 0
\* nor 1.
UnknownKindAtCursor ==
    /\ ~ShortAtCursor
    /\ ChunkRead(bytes, curr).compression \notin { UNCOMPRESSED, RUN_LENGTH_ENCODING }

\* C27: a next_frame call on a whole chunk whose compression byte is
\* neither 0 nor 1 panics: it neither returns a frame nor reports the end
\* of the stream.
C27_UnknownKindFatal ==
    [][ (CallMade /\ UnknownKindAtCursor)
          => (dec_state' = "panicked" /\ calls' = calls /\ last' = last) ]_vars

\* A call on a second chunk of compression kind 255 has panicked after the
\* first chunk's frame was returned.
C27_Witness ==
    /\ dec_state = "panicked"
    /\ frame_num = 1
    /\ calls = 1
    /\ last.some
    /\ corrupt # << >>
    /\ corrupt[2] = 255
    /\ bytes[corrupt[1] + 1] = 255
    /\ corrupt[1] = ChunkStarts(bytes, HeaderSize)[2] + 4

\* Offsets of bytes of the header fields that only inform: the frame count
\* (its lowest and highest byte) and the reserved bytes (first and last).
InfoOffsets == { 16, 19, 24, 127 }

\* Buffers equal to b but for one byte of those fields.
InfoVariants(b) ==
    { [b EXCEPT ![o + 1] = v] : o \in InfoOffsets, v \in { 0, 255 } }

\* The call result r2, on the buffer b2, is the result r1 but for the
\* buffer the decoder holds.
SameBut(r2, r1, b2) == r2 = [r1 EXCEPT !.d.bytes = b2]

\* The decoder d behaves on the buffer b2 as on its own: construction
\* accepts b2 with the same cursor, grid and counter, and a next_frame or a
\* reset in the same state gives the same result and the same state.
BehavesAlikeOn(d, b2) ==
    /\ ~NewPanics(b2)
    /\ NewOf(b2) = [NewOf(d.bytes) EXCEPT !.bytes = b2]
    /\ ResetOf([d EXCEPT !.bytes = b2]) = [ResetOf(d) EXCEPT !.bytes = b2]
    /\ \A checks \in BOOLEAN :
         SameBut(NextFrameOf([d EXCEPT !.bytes = b2], checks),
                 NextFrameOf(d, checks), b2)

\* C28: two buffers that are equal except for the header's frame count and
\* its reserved bytes give, under the same next_frame and reset calls, the
\* same results.  In every state a decoder reaches on one buffer, a decoder
\* in the same state on the other buffer returns the same from next_frame
\* (same id, same bitmap, none alike, panic alike) and is left in the same
\* state, and construction and reset agree too; the frames returned follow
\* the chunks present, whatever the frame count says.
C28_InfoFieldsIgnored ==
    dec_state = "ok" => \A b2 \in InfoVariants(bytes) : BehavesAlikeOn(Dec, b2)

\* Two frames have been returned from a buffer whose header declares none.
C28_Witness ==
    /\ dec_state = "ok"
    /\ corrupt = << 16, 0 >>
    /\ CodecHeaderRead(bytes).n_frames = U32(0)
    /\ calls = 2
    /\ last.some
    /\ last.id = 2

\* The cursor of a constructed decoder lies between the end of the stream
\* header and the end of the buffer.
CursorInBounds ==
    dec_state \in { "ok", "panicked" } =>
        (HeaderSize <= curr /\ curr <= Len(bytes))

\* C29: on an accepted buffer of length L, every decoder state reached by
\* next_frame and reset calls has 128 <= cursor <= L, so the assertion
\* curr <= bytes.len() at the top of next() holds whenever it is evaluated,
\* and a next_frame call never moves the cursor backwards: only reset()
\* does, to 128.
C29_CursorBounds ==
    /\ [] CursorInBounds
    /\ [][CallMade => curr' >= curr]_vars
    /\ [][(dec_state = "ok" /\ curr' < curr) =>
            (curr' = HeaderSize /\ calls' = 0 /\ frame_num' = 0)]_vars

\* A short read has pinned the cursor to the end of a buffer cut inside its
\* first chunk, and a second call has read from there.
C29_Witness ==
    /\ dec_state = "ok"
    /\ HeaderSize < Len(bytes)
    /\ Len(bytes) < Len(stream)
    /\ WholeChunks(bytes, HeaderSize) = 0
    /\ calls = 2
    /\ ~last.some
    /\ curr = Len(bytes)

\* The byte index the layout gives cell (x, y) of the grid g, in unbounded
\* integers.
LayoutIndex(g, x, y) == (x \div 8) + y * ((g.width + 7) \div 8)

\* idx(x, y) on the grid g stays inside i16 at every step and lands on the
\* layout's byte, inside the buffer.
IdxInRange(g, x, y) ==
    /\ ~IdxOverflows(g, x, y)
    /\ Idx(g, x, y).idx = LayoutIndex(g, x, y)
    /\ ~IdxOutside(Idx(g, x, y), Len(g.buf))

\* C30 (as stated): for every grid with 1 <= width, height <= 32767 and
\* every cell 0 <= x < width, 0 <= y < height, idx computes
\* (x div 8) + y * ceil(width / 8) with no overflow of its i16 arithmetic,
\* and the index lies inside the buffer of ceil(width / 8) * height bytes.
C30_IndexInRange ==
    (op.name # "none" /\ InGrid(op.before, op.x, op.y)) =>
        IdxInRange(op.before, op.x, op.y)

====
